---- MODULE Spec2Model ----
(***************************************************************************)
(* The "custom" sub-plugin of tensor_filter (tensor_filter_custom.c): the  *)
(* loader of an externally built module, the validation of its            *)
(* NNStreamer_custom_class table and the dispatch of the framework        *)
(* callbacks (open, invoke_NN, get/setInputDimension, close) into it.     *)
(*                                                                         *)
(* One process holds two tensor_filter instances.  g_assert() is compiled  *)
(* in (GLib's default): a failing g_assert() calls abort(), which ends the *)
(* whole process.  `aborted` then names the line of the assertion, or of   *)
(* the trap of a call or read through a null pointer, and no further call  *)
(* can be made.                                                            *)
(***************************************************************************)
EXTENDS Integers, Sequences, FiniteSets, TLC

\* Bound of the model: the library handles one instance may come to hold.
MaxOpens == 2

\* The tensor_filter instances of the process.
Instances == {1, 2}

\* The null pointer, for the pointers the model holds as numbers.
NULL == 0

\* filter->privateData: no internal_data (NULL), or the one it points to.
NoData == <<>>

(***************************************************************************)
(* NNStreamer_custom_class: which entries of the module's table are        *)
(* non-NULL.                                                               *)
(***************************************************************************)
NNStreamer_custom_class ==
  [initfunc : BOOLEAN, exitfunc : BOOLEAN,
   getInputDim : BOOLEAN, getOutputDim : BOOLEAN, setInputDim : BOOLEAN,
   invoke : BOOLEAN, allocate_invoke : BOOLEAN]

NoMethods ==
  [initfunc |-> FALSE, exitfunc |-> FALSE,
   getInputDim |-> FALSE, getOutputDim |-> FALSE, setInputDim |-> FALSE,
   invoke |-> FALSE, allocate_invoke |-> FALSE]

(***************************************************************************)
(* What filter->prop.model_file names: a file dlopen() cannot load, a      *)
(* library without the NNStreamer_custom symbol, a library whose           *)
(* NNStreamer_custom holds a NULL pointer instead of a table (table is     *)
(* FALSE), or a library exporting a table.                                 *)
(***************************************************************************)
ModelFiles ==
  {[loadable |-> FALSE, symbol |-> FALSE, table |-> FALSE, methods |-> NoMethods],
   [loadable |-> TRUE, symbol |-> FALSE, table |-> FALSE, methods |-> NoMethods],
   [loadable |-> TRUE, symbol |-> TRUE, table |-> FALSE, methods |-> NoMethods]}
  \cup {[loadable |-> TRUE, symbol |-> TRUE, table |-> TRUE, methods |-> m] :
          m \in NNStreamer_custom_class}

\* tensor_element_size[] for the element types the model uses.
tensor_element_size(type) ==
  CASE type = "uint8" -> 1
    [] type = "uint16" -> 2
    [] type = "float32" -> 4

RECURSIVE ProductFrom(_, _)
ProductFrom(dim, k) ==
  IF k > Len(dim) THEN 1 ELSE dim[k] * ProductFrom(dim, k + 1)

\* get_tensor_element_count(): the product of the dimension entries.
get_tensor_element_count(dimension) == ProductFrom(dimension, 1)

\* The GstTensorInfo values the host and the modules use in the model.
TensorInfos ==
  {[dimension |-> <<3, 2, 2, 1>>, type |-> "uint8"],
   [dimension |-> <<1, 2, 1, 1>>, type |-> "uint16"]}

\* The output tensor the host configured for each instance.
HostOutputMeta(i) ==
  IF i = 1 THEN [dimension |-> <<3, 2, 2, 1>>, type |-> "uint8"]
           ELSE [dimension |-> <<1, 2, 1, 1>>, type |-> "uint16"]

\* Line 237: .allow_in_place = FALSE, custom cannot support in-place.
allow_in_place == FALSE

\* The buffers of the host, the input buffers it hands to invoke_NN, and the
\* buffer a module returns from allocate_invoke.
HostBuffers == {1, 2, 3}
InputBuffers == {1}
ModuleBuffer == 4

\* The output buffers the caller may hand to invoke_NN together with inptr:
\* custom_invoke takes the two pointers as they come, inptr itself included.
OutputBuffers(inptr) == HostBuffers

(***************************************************************************)
(* The example module "scaler" (nnstreamer_customfilter_example_scaler.c). *)
(* A string is a sequence of characters; a pointer that may be NULL is the *)
(* empty sequence or a sequence holding what it points to.                 *)
(***************************************************************************)
\* Lines 142-144: uint32_t is a word of WordBits bits.  A word is held as
\* its four limbs of LimbBits bits, least significant first, so that a
\* product that wraps is computed exactly.
WordBits == 32
LimbBits == 8
Limb == 2 ^ LimbBits

\* The word an integer is converted to: its value modulo 2^WordBits.
ToWord(n) ==
  <<n % Limb, (n \div Limb) % Limb, (n \div (Limb * Limb)) % Limb,
    (n \div (Limb * Limb * Limb)) % Limb>>

\* The value of a word.
FromWord(w) == w[1] + Limb * (w[2] + Limb * (w[3] + Limb * w[4]))

\* uint32_t arithmetic: the result of an operation, wrapped to the word.
U32(n) == FromWord(ToWord(n))

\* a * b in uint32_t: the low four limbs of the product.
MulWord(a, b) ==
  LET s1 == a[1] * b[1]
      s2 == a[1] * b[2] + a[2] * b[1] + s1 \div Limb
      s3 == a[1] * b[3] + a[2] * b[2] + a[3] * b[1] + s2 \div Limb
      s4 == a[1] * b[4] + a[2] * b[3] + a[3] * b[2] + a[4] * b[1] + s3 \div Limb
  IN <<s1 % Limb, s2 % Limb, s3 % Limb, s4 % Limb>>

\* w / o in uint32_t for o > 0, by long division from the top limb.
DivWord(w, o) ==
  LET c4 == w[4]
      c3 == (c4 % o) * Limb + w[3]
      c2 == (c3 % o) * Limb + w[2]
      c1 == (c2 % o) * Limb + w[1]
  IN (((c4 \div o) * Limb + c3 \div o) * Limb + c2 \div o) * Limb + c1 \div o

\* Bound of the model: the largest entry of a tensor dimension.
MaxDim == 2

\* Line 151: NNS_TENSOR_RANK_LIMIT.
NNS_TENSOR_RANK_LIMIT == 4

\* The element types of the tensors given to the scaler.
ScalerTypes == {"uint8", "uint16"}

\* The tensor infos (info[0] of a GstTensorsInfo) the host may configure.
ScalerInfos ==
  [dimension : [1..NNS_TENSOR_RANK_LIMIT -> 1..MaxDim], type : ScalerTypes]

\* prop->custom_properties: NULL, or a string.
NoString == <<>>
Str(chars) == <<chars>>

CustomProperties ==
  {NoString,
   Str(<<>>),
   Str(<<"2", "x", "1">>),
   Str(<<"1", "X", "2">>),
   Str(<<"3", ":", "2">>),
   Str(<<"2", "_", "3", "/", "1">>),
   Str(<<"2">>),
   Str(<<"x", "2">>),
   Str(<<"2", "x", "a">>),
   Str(<<"1", "2", " ", "1">>),
   Str(<<"+", "2", "x", "0", "2", "a">>),
   Str(<<"\r", "2", "x", "\f", "", "1">>)}

\* Line 69: the delimiters given to g_strsplit_set.
Delimiters == {"x", "X", ":", "_", "/", " "}

\* The white space g_ascii_strtoll skips: space, form feed, new line,
\* carriage return, horizontal tab and vertical tab (the character 0x0B,
\* written as itself for want of an escape).
Spaces == {" ", "\f", "\n", "\r", "\t", ""}

DigitValue(ch) ==
  CASE ch = "0" -> 0 [] ch = "1" -> 1 [] ch = "2" -> 2 [] ch = "3" -> 3
    [] ch = "4" -> 4 [] ch = "5" -> 5 [] ch = "6" -> 6 [] ch = "7" -> 7
    [] ch = "8" -> 8 [] ch = "9" -> 9 [] OTHER -> -1

\* The position of the first delimiter of s at or after k, or Len(s) + 1.
RECURSIVE NextDelimiter(_, _)
NextDelimiter(s, k) ==
  IF k > Len(s) \/ s[k] \in Delimiters THEN k ELSE NextDelimiter(s, k + 1)

(***************************************************************************)
(* g_strsplit_set (string, delimiters, max_tokens): the empty string gives *)
(* no token; otherwise the string is cut at each delimiter until           *)
(* max_tokens - 1 tokens are cut, and what is left is the last token.      *)
(***************************************************************************)
RECURSIVE SplitTokens(_, _)
SplitTokens(s, n) ==
  LET d == NextDelimiter(s, 1) IN
  IF n <= 1 \/ d > Len(s) THEN <<s>>
  ELSE <<SubSeq(s, 1, d - 1)>> \o SplitTokens(SubSeq(s, d + 1, Len(s)), n - 1)

g_strsplit_set(s, max_tokens) ==
  IF s = <<>> THEN <<>>
  ELSE SplitTokens(s, IF max_tokens < 1 THEN Len(s) + 1 ELSE max_tokens)

RECURSIVE SkipSpaces(_, _)
SkipSpaces(s, k) ==
  IF k <= Len(s) /\ s[k] \in Spaces THEN SkipSpaces(s, k + 1) ELSE k

\* The value of the digits of s from position k on, after the value acc.
RECURSIVE DigitsFrom(_, _, _)
DigitsFrom(s, k, acc) ==
  IF k <= Len(s) /\ DigitValue(s[k]) >= 0
    THEN DigitsFrom(s, k + 1, 10 * acc + DigitValue(s[k]))
    ELSE acc

(***************************************************************************)
(* g_ascii_strtoll (nptr, NULL, 10): leading white space, an optional      *)
(* sign, then the decimal digits up to the first other character; 0 when   *)
(* there is no digit.  (The strings of the model are far from the 64-bit   *)
(* limits at which the result saturates.)                                  *)
(***************************************************************************)
g_ascii_strtoll(s) ==
  LET k == SkipSpaces(s, 1)
      signed == k <= Len(s) /\ s[k] \in {"+", "-"}
      magnitude == DigitsFrom(s, IF signed THEN k + 1 ELSE k, 0)
  IN IF signed /\ s[k] = "-" THEN 0 - magnitude ELSE magnitude

\* A parser that takes the height from the first token, too.
ParseTarget_FirstTokenTwice(strv) ==
  [new_x |-> IF Len(strv) >= 1 THEN U32(g_ascii_strtoll(strv[1])) ELSE 0,
   new_y |-> IF Len(strv) >= 1 THEN U32(g_ascii_strtoll(strv[1])) ELSE 0]

\* Lines 71-84: new_x from strv[0] and new_y from strv[1], 0 for a token
\* that is missing; the value is converted to uint32_t, which is never < 0.
ParseTarget(strv) ==
  [new_x |-> IF Len(strv) >= 1 THEN U32(g_ascii_strtoll(strv[1])) ELSE 0,
   new_y |-> IF Len(strv) >= 2 THEN U32(g_ascii_strtoll(strv[2])) ELSE 0]

(***************************************************************************)
(* pt_init: the pt_data made from prop->custom_properties.  A NULL or      *)
(* empty string leaves property NULL and the target 0 x 0.                 *)
(***************************************************************************)
pt_init(custom_properties) ==
  LET property == IF custom_properties # NoString /\ Len(custom_properties[1]) > 0
                    THEN custom_properties ELSE NoString
      target == IF property # NoString
                  THEN ParseTarget(g_strsplit_set(property[1], 3))
                  ELSE [new_x |-> 0, new_y |-> 0]
  IN [id |-> 0, property |-> property, new_x |-> target.new_x,
      new_y |-> target.new_y]

\* A module that puts the height in dimension[1] and the width in [2].
set_inputDim_Swapped(data, in_info) ==
  [num_tensors |-> 1,
   dimension |-> [k \in 1..NNS_TENSOR_RANK_LIMIT |->
                    IF k = 2 /\ data.new_y > 0 THEN data.new_y
                    ELSE IF k = 3 /\ data.new_x > 0 THEN data.new_x
                    ELSE in_info.dimension[k]],
   type |-> in_info.type]

(***************************************************************************)
(* set_inputDim: *out_info for the input info in_info (info[0]): one       *)
(* tensor with the input's dimensions, dimension[1] replaced by new_x and  *)
(* dimension[2] by new_y where these are not 0, and the input's type.  The *)
(* function returns 0.  (dimension[k] of the code is dimension[k + 1]      *)
(* here.)                                                                  *)
(***************************************************************************)
set_inputDim(data, in_info) ==
  [num_tensors |-> 1,
   dimension |-> [k \in 1..NNS_TENSOR_RANK_LIMIT |->
                    IF k = 2 /\ data.new_x > 0 THEN data.new_x
                    ELSE IF k = 3 /\ data.new_y > 0 THEN data.new_y
                    ELSE in_info.dimension[k]],
   type |-> in_info.type]

\* A sampler that takes the input pixel of the same coordinate.
SampleIndex_Unscaled(x, in_dim, o) == x

\* Lines 181-182: ix = x * dimension[1] / ox, in unsigned arithmetic.
SampleIndex(x, in_dim, o) == DivWord(MulWord(ToWord(x), ToWord(in_dim)), o)

\* An addressing that exchanges the strides of x and y.
ByteOffset_StridesSwapped(elementsize, c, x, y, z, sz, idx0, idx1, idx2) ==
  U32(elementsize * U32(c + y * idx0 + x * idx1 + z * idx2) + sz)

\* Lines 190-193: elementsize * (c + x * idx0 + y * idx1 + z * idx2) + sz.
ByteOffset(elementsize, c, x, y, z, sz, idx0, idx1, idx2) ==
  U32(elementsize * U32(c + x * idx0 + y * idx1 + z * idx2) + sz)

\* The first assertion of lines 146-157 that fails, or "none".
InvokeAsserts(data, input_meta, output_meta, inptr, outptr) ==
  IF data = <<>> THEN "assert:146"
  ELSE IF inptr = NULL THEN "assert:147"
  ELSE IF outptr = NULL THEN "assert:148"
  ELSE IF input_meta.dimension[1] # output_meta.dimension[1] THEN "assert:153"
  ELSE IF input_meta.dimension[4] # output_meta.dimension[4] THEN "assert:155"
  ELSE IF input_meta.type # output_meta.type THEN "assert:157"
  ELSE "none"

(***************************************************************************)
(* pt_invoke.  The result holds the assertion that stopped the call (or    *)
(* "none"), the status returned, and one record per byte copied: the       *)
(* iteration (z, y, x, c, sz), its place n in the order of the loops, the  *)
(* byte offset off written in outptr and the byte offset src read from     *)
(* inptr.  data is the pt_data the module state points to.                 *)
(***************************************************************************)
pt_invoke(data, input_meta, output_meta, inptr, outptr) ==
  LET failed == InvokeAsserts(data, input_meta, output_meta, inptr, outptr) IN
  IF failed # "none" THEN [abort |-> failed, ret |-> -1, writes |-> {}]
  ELSE
    LET d == data[1]
        elementsize == tensor_element_size(input_meta.type)
        ox == IF d.new_x > 0 THEN d.new_x ELSE output_meta.dimension[2]
        oy == IF d.new_y > 0 THEN d.new_y ELSE output_meta.dimension[3]
        oidx0 == output_meta.dimension[1]
        oidx1 == U32(oidx0 * output_meta.dimension[2])
        oidx2 == U32(oidx1 * output_meta.dimension[3])
        iidx0 == input_meta.dimension[1]
        iidx1 == U32(iidx0 * input_meta.dimension[2])
        iidx2 == U32(iidx1 * input_meta.dimension[3])
        copies ==
          {LET ix == SampleIndex(x, input_meta.dimension[2], ox)
               iy == SampleIndex(y, input_meta.dimension[3], oy)
           IN [z |-> z, y |-> y, x |-> x, c |-> c, sz |-> sz,
               n |-> (((z * oy + y) * ox + x) * input_meta.dimension[1] + c)
                       * elementsize + sz,
               ix |-> ix,
               iy |-> iy,
               off |-> ByteOffset(elementsize, c, x, y, z, sz,
                                  oidx0, oidx1, oidx2),
               src |-> ByteOffset(elementsize, c, ix, iy, z, sz,
                                  iidx0, iidx1, iidx2)] :
             z \in 0..(input_meta.dimension[4] - 1), y \in 0..(oy - 1),
             x \in 0..(ox - 1), c \in 0..(input_meta.dimension[1] - 1),
             sz \in 0..(elementsize - 1)}
        \* Line 184: the iterations whose sampled pixel is outside the input.
        outside == {w \in copies : ~(w.ix < input_meta.dimension[2]
                                     /\ w.iy < input_meta.dimension[3])}
    IN IF outside # {}
         THEN [abort |-> "assert:184", ret |-> -1,
               writes |-> {w \in copies : \A v \in outside : w.n < v.n}]
       ELSE IF inptr = outptr
         THEN [abort |-> "assert:199", ret |-> -1, writes |-> copies]
       ELSE [abort |-> "none", ret |-> 0, writes |-> copies]

\* pt_exit, lines 98-102: the pt_data is asserted and freed.
pt_exit(data) == IF data = <<>> THEN "assert:99" ELSE "none"

\* The byte size of a tensor.
ByteSize(info) ==
  get_tensor_element_count(info.dimension) * tensor_element_size(info.type)

\* The host element stores the negotiated output info in prop.output_meta.
ConfiguredFrom(out_info) ==
  [dimension |-> out_info.dimension, type |-> out_info.type]

VARIABLES
  prop,                \* filter->prop of every instance: model_file, output_meta
  privateData,         \* filter->privateData: NULL or the internal_data
  allocate_in_invoke,  \* NNS_support_custom.allocate_in_invoke (one per process)
  dl_held,             \* per instance: dlopen() handles obtained and not dlclose()d
  module_states,       \* states returned by initfunc and not yet given to exitfunc
  next_state,          \* per instance: numbers the states its initfunc calls return
  aborted,             \* "none", or the assertion / trap that ended the process
  life,                \* per instance: module calls since its internal_data was made
  last,                \* the most recent framework call and its result
  loading,             \* per instance: the handler whose thread is inside dlopen()
  scaler,              \* the example scaler module and the filter it is loaded in
  pipeline             \* a test pipeline of unittest_sink.cpp and its g_test_data

\* The state of the custom sub-plugin.
filter_vars ==
  <<prop, privateData, allocate_in_invoke, dl_held, module_states, next_state,
    aborted, life, last, loading>>

\* The state of the example module.
example_vars == <<scaler>>

\* The state of the sink tests.
test_vars == <<pipeline>>

vars == <<filter_vars, example_vars, test_vars>>

NoLife == [inits |-> 0, exits |-> 0, others |-> 0, ordered |-> TRUE]

NoInfo == [dimension |-> <<>>, type |-> "none"]

\* What a handler and the module exchanged: the buffers handed to the module,
\* and the status, buffer, size and tensor info the module answered with.
NoIO ==
  [inptr |-> NULL, outptr |-> NULL, status |-> 0, buf |-> NULL, size |-> 0,
   written |-> FALSE, info |-> NoInfo]

NoCall ==
  [inst |-> 0, op |-> "none", ret |-> 0, info |-> NoInfo, calls |-> <<>>,
   loaded |-> FALSE, io |-> NoIO, log |-> "none"]

NoOutInfo == [num_tensors |-> 0, dimension |-> <<>>, type |-> "none"]

\* No scaler is loaded.
NoScaler ==
  [pc |-> "absent", custom_properties |-> NoString, input_meta |-> NoInfo,
   output_meta |-> NoInfo, data |-> <<>>, out_info |-> NoOutInfo,
   inptr |-> NULL, outptr |-> NULL, ret |-> 0, abort |-> "none", writes |-> {}]

(***************************************************************************)
(* The tests of unittest_sink.cpp: the test's g_test_data and the          *)
(* callbacks it connects to the pipeline's bus and to tensor_sink.  The    *)
(* elements of the pipeline are not part of these sources: when they post  *)
(* a message or emit a signal, and with which buffer, is left open.        *)
(***************************************************************************)
\* Bounds of the model: the new-data signals of a run, and the size of a
\* buffer as gst_buffer_get_size() gives it.
MaxBuffers == 6
MaxBufferSize == 3

\* The messages the bus hands to _message_cb: the four it looks at, and one
\* of the others.
Messages == {"error", "warning", "eos", "stream-start", "state-changed"}

\* Line 112: the static g_test_data of a fresh process, zero-initialised
\* (TEST_START is 0).  quit tells that g_main_loop_quit was called on loop.
g_test_data ==
  [status |-> "TEST_START", received |-> 0, received_size |-> 0,
   start |-> FALSE, end |-> FALSE, quit |-> FALSE]

\* _setup_pipeline up to the first check: lines 294-298 reset the fields,
\* whatever an earlier test left in them, and line 308 makes a new loop.
setup_reset(data) ==
  [data EXCEPT !.status = "TEST_START", !.received = 0, !.received_size = 0,
               !.start = FALSE, !.end = FALSE, !.quit = FALSE]

\* _setup_pipeline returning TRUE: line 496 after every check has passed.
setup_pipeline(data) == [setup_reset(data) EXCEPT !.status = "TEST_INIT"]

\* _message_cb, lines 145-170.
message_cb(data, message) ==
  CASE message \in {"error", "warning"} ->
         [data EXCEPT !.status = "TEST_ERR_MESSAGE", !.quit = TRUE]
    [] message = "eos" -> [data EXCEPT !.status = "TEST_EOS", !.quit = TRUE]
    [] message = "stream-start" -> [data EXCEPT !.status = "TEST_STREAM"]
    [] OTHER -> data

\* _new_data_cb, lines 176-177.
new_data_cb(data, size) ==
  [data EXCEPT !.received = @ + 1, !.received_size = size]

\* _stream_start_cb, line 225, and _eos_cb, line 235.
stream_start_cb(data) == [data EXCEPT !.start = TRUE]
eos_cb(data) == [data EXCEPT !.end = TRUE]

\* The process before its first test; signals tells whether the test
\* connects _stream_start_cb and _eos_cb (lines 584-589).
NoPipeline == [pc |-> "none", signals |-> FALSE, data |-> g_test_data]

Init ==
  /\ \E files \in [Instances -> ModelFiles] :
       prop = [i \in Instances |->
                 [model_file |-> files[i], output_meta |-> HostOutputMeta(i)]]
  /\ privateData = [i \in Instances |-> NoData]
  /\ allocate_in_invoke = FALSE
  /\ dl_held = [i \in Instances |-> 0]
  /\ module_states = {}
  /\ next_state = [i \in Instances |-> 1]
  /\ aborted = "none"
  /\ life = [i \in Instances |-> NoLife]
  /\ last = NoCall
  /\ loading = [i \in Instances |-> "idle"]
  /\ scaler = NoScaler
  /\ pipeline = NoPipeline

(***************************************************************************)
(* The record of the module calls of one internal_data's lifetime.         *)
(***************************************************************************)
LifeStep(l, call) ==
  IF call.fn = "initfunc"
    THEN [l EXCEPT !.inits = @ + 1,
                   !.ordered = @ /\ l.inits = 0 /\ l.exits = 0 /\ l.others = 0]
  ELSE IF call.fn = "exitfunc"
    THEN [l EXCEPT !.exits = @ + 1,
                   !.ordered = @ /\ l.inits = 1 /\ l.exits = 0]
  ELSE [l EXCEPT !.others = 1,
                 !.ordered = @ /\ l.inits = 1 /\ l.exits = 0]

RECURSIVE LifeAfter(_, _)
LifeAfter(l, calls) ==
  IF calls = <<>> THEN l ELSE LifeAfter(LifeStep(l, Head(calls)), Tail(calls))

(***************************************************************************)
(* custom_loadlib                                                          *)
(***************************************************************************)
\* A loader that does not look at filter->privateData.
AlreadyLoaded_Never(pd) == FALSE

\* Line 59: the library of this instance is already loaded.
AlreadyLoaded(pd) == pd # NoData

\* Line 89: g_assert (ptr->methods->initfunc).
InitAssert(methods) == methods.initfunc

\* A check of the input getter alone against setInputDim.
ShapeModeAssert_InputOnly(methods) ==
  (~methods.getInputDim) # (~methods.setInputDim)

\* Lines 94-95: (getInput XOR setInput) && (getOutput XOR setInput).
ShapeModeAssert(methods) ==
  /\ (~methods.getInputDim) # (~methods.setInputDim)
  /\ (~methods.getOutputDim) # (~methods.setInputDim)

\* A check that accepts a table holding both entries.
InvokeModeAssert_AtLeastOne(methods) == methods.invoke \/ methods.allocate_invoke

\* Line 112: g_assert (!ptr->methods->invoke != !ptr->methods->allocate_invoke).
InvokeModeAssert(methods) == (~methods.invoke) # (~methods.allocate_invoke)

\* The pointer initfunc returns: a fresh allocation of the module, never NULL.
NewState(i) == 10 * i + next_state[i]

\* The internal_data after g_new0 and the assignments made so far.
internal_data(handle, methods, state) ==
  <<[handle |-> handle, methods |-> methods, customFW_private_data |-> state]>>

\* The result of a call that does not enter the loader, or finds it loaded.
Skipped(pd) ==
  [retval |-> 1, abort |-> "none", pd |-> pd, calls |-> <<>>, dl |-> 0,
   opened |-> FALSE, fresh |-> FALSE, log |-> "none"]

\* A dispatcher that hands every module the configuration of instance 1.
PropArg_FirstInstance(i) == 1

\* &(filter->prop), the argument of every module call: the configuration of
\* the instance the handler was called for, named by the instance.
PropArg(i) == i

\* A loader that asserts the shape entries before it calls initfunc.
InitAndCheck_ValidateFirst(i, methods, resolved) ==
  IF ~InitAssert(methods) THEN [resolved EXCEPT !.abort = "assert:89"]
  ELSE IF ~ShapeModeAssert(methods) THEN [resolved EXCEPT !.abort = "assert:94"]
  ELSE [resolved EXCEPT
          !.pd = internal_data(TRUE, methods, NewState(i)),
          !.calls = <<[fn |-> "initfunc", state |-> NewState(i),
                       prop |-> PropArg(i)]>>]

(***************************************************************************)
(* Lines 89-97, with the library open and the table resolved: initfunc is  *)
(* asserted and called, and the shape entries are asserted after it.       *)
(***************************************************************************)
InitAndCheck(i, methods, resolved) ==
  IF ~InitAssert(methods) THEN [resolved EXCEPT !.abort = "assert:89"]
  ELSE
    LET state == NewState(i)
        inited == [resolved EXCEPT
                     !.pd = internal_data(TRUE, methods, state),
                     !.calls = <<[fn |-> "initfunc", state |-> state,
                                  prop |-> PropArg(i)]>>]
    IN IF ~ShapeModeAssert(methods)
         THEN [inited EXCEPT !.abort = "assert:94"]
         ELSE inited

(***************************************************************************)
(* The outcomes of custom_loadlib (filter, &filter->privateData) for       *)
(* instance i.  retval is meaningful when abort = "none".  A library       *)
(* without the symbol makes dlsym() return NULL, which line 79             *)
(* dereferences before dlerror() is looked at: the read traps, or, where   *)
(* address 0 is readable, yields a value that the error branch discards.   *)
(* A symbol that holds a NULL pointer gives ptr->methods = NULL with no     *)
(* dlerror(): line 89 reads initfunc through it, which traps, or, where    *)
(* address 0 is readable, yields a value that fails the assertion when it  *)
(* is zero and is called at line 90 when it is not.                        *)
(* log is what err_print() wrote.                                          *)
(***************************************************************************)
\* Line 82: err_print ("tensor_filter_custom:loadlib error: %s\n", ...).
SymbolError == "loadlib error"

\* The thread of instance i is inside dlopen() of line 70: it has passed line
\* 59 and stored its zero-filled internal_data at line 65.
InDlopen(i) == loading[i] # "idle"

custom_loadlib(i) ==
  LET file == prop[i].model_file
      made == [retval |-> 0, abort |-> "none", pd |-> NoData, calls |-> <<>>,
               dl |-> 0, opened |-> FALSE, fresh |-> TRUE, log |-> "none"]
  IN
  IF ~InDlopen(i) /\ AlreadyLoaded(privateData[i])
    THEN {Skipped(privateData[i])}
  ELSE IF ~file.loadable THEN {[made EXCEPT !.retval = -1]}
  ELSE IF ~file.symbol THEN
    {[made EXCEPT !.abort = "segv:79", !.dl = 1, !.opened = TRUE,
                  !.pd = internal_data(TRUE, NoMethods, NULL)],
     [made EXCEPT !.retval = -1, !.opened = TRUE, !.log = SymbolError]}
  ELSE IF ~file.table THEN
    {[made EXCEPT !.abort = site, !.dl = 1, !.opened = TRUE,
                  !.pd = internal_data(TRUE, NoMethods, NULL)] :
       site \in {"segv:89", "assert:89", "segv:90"}}
  ELSE {InitAndCheck(i, file.methods,
                      [made EXCEPT !.dl = 1, !.opened = TRUE,
                                   !.pd = internal_data(TRUE, file.methods, NULL)])}

\* The model stops loading once an instance holds MaxOpens library handles.
LoadBound(i) == privateData[i] # NoData \/ dl_held[i] < MaxOpens

StatesOf(calls, fn) ==
  {calls[k].state : k \in {n \in DOMAIN calls : calls[n].fn = fn}}

(***************************************************************************)
(* The state after a framework call on instance i: o is what the loader    *)
(* did, calls every module call the handler made (the loader's included),  *)
(* site the assertion or trap that ended the process ("none": it returned) *)
(***************************************************************************)
Returns(i, op, o, pd, calls, site, ret, info, io) ==
  /\ privateData' = [privateData EXCEPT ![i] = pd]
  /\ aborted' = site
  /\ dl_held' = [dl_held EXCEPT ![i] = @ + o.dl]
  /\ module_states' =
       (module_states \cup StatesOf(calls, "initfunc")) \ StatesOf(calls, "exitfunc")
  /\ next_state' =
       [next_state EXCEPT ![i] = @ + Cardinality(StatesOf(calls, "initfunc"))]
  /\ life' = [life EXCEPT ![i] =
                LifeAfter(IF o.fresh THEN NoLife ELSE @,
                          calls)]
  /\ last' = [inst |-> i, op |-> op, ret |-> ret, info |-> info, calls |-> calls,
               loaded |-> o.opened, io |-> io, log |-> o.log]
  /\ loading' = [loading EXCEPT ![i] = "idle"]
  /\ UNCHANGED <<prop, example_vars, test_vars>>

(***************************************************************************)
(* custom_open                                                             *)
(***************************************************************************)
\* A build with the assertions compiled out, where a failed check ends nothing.
Running_AssertsDisabled == TRUE

\* A failed g_assert() calls abort(): the process makes no call after it.
Running == aborted = "none"

\* Line 109: g_assert (retval == 0), this must be called only once.
FirstLoadAssert(retval) == retval = 0

custom_open(i) ==
  /\ Running
  /\ LoadBound(i)
  /\ \E o \in custom_loadlib(i) :
       LET site == IF o.abort # "none" THEN o.abort
                   ELSE IF ~FirstLoadAssert(o.retval) THEN "assert:109"
                   ELSE IF ~InvokeModeAssert(o.pd[1].methods) THEN "assert:112"
                   ELSE "none"
       IN /\ Returns(i, "open", o, o.pd, o.calls, site, 0, NoInfo, NoIO)
          /\ allocate_in_invoke' =
               IF site = "none" /\ o.pd[1].methods.allocate_invoke
                 THEN TRUE ELSE allocate_in_invoke

\* A close that frees the internal_data without calling exitfunc.
custom_close_NoExit(i) ==
  /\ Running
  /\ privateData[i] # NoData
  /\ Returns(i, "close", Skipped(privateData[i]), NoData, <<>>, "none", 0, NoInfo,
             NoIO)
  /\ UNCHANGED allocate_in_invoke

(***************************************************************************)
(* custom_close.  ptr = *private_data is dereferenced without a check, and *)
(* exitfunc is called without a check: a NULL ptr or a NULL exitfunc       *)
(* traps.  The library handle ptr->handle is not given to dlclose().       *)
(***************************************************************************)
custom_close(i) ==
  /\ Running
  /\ LET ptr == privateData[i] IN
     IF ptr = NoData
       THEN /\ Returns(i, "close", Skipped(ptr), ptr, <<>>, "segv:229:ptr", 0, NoInfo,
                    NoIO)
            /\ UNCHANGED allocate_in_invoke
     ELSE IF ~ptr[1].methods.exitfunc
       THEN /\ Returns(i, "close", Skipped(ptr), ptr, <<>>, "segv:229:exitfunc", 0,
                    NoInfo, NoIO)
            /\ UNCHANGED allocate_in_invoke
     ELSE /\ Returns(i, "close", Skipped(ptr), NoData,
                     <<[fn |-> "exitfunc", state |-> ptr[1].customFW_private_data,
                        prop |-> PropArg(i)]>>,
                     "none", 0, NoInfo, NoIO)
          /\ UNCHANGED allocate_in_invoke

(***************************************************************************)
(* custom_invoke.  The module answers invoke with a status, and            *)
(* allocate_invoke with a buffer and a size; a module that does not write  *)
(* *size (written = FALSE) leaves the local uninitialized, so the value    *)
(* compared at line 147 is then any value.                                 *)
(***************************************************************************)
InvokeStatus == {0, -1}

\* An assertion that only rejects a failed load.
LoadedAssert_NotFailed(retval) == retval >= 0

\* Lines 132, 166, 188, 210: g_assert (retval == 1), open must be called before.
LoadedAssert(retval) == retval = 1

\* Lines 148-149: the byte size of the output tensor of filter->prop.
OutputByteSize(i) ==
  get_tensor_element_count(prop[i].output_meta.dimension)
    * tensor_element_size(prop[i].output_meta.type)

ReportedSizes(i) == {OutputByteSize(i), OutputByteSize(i) + 1}

\* An assertion that only rejects a buffer that is too small.
SizeAssert_AtLeast(i, size) == size >= OutputByteSize(i)

\* Line 147: g_assert (size == ...).
SizeAssert(i, size) == size = OutputByteSize(i)

\* A dispatcher that hands the module the state of the instance's first init.
ModuleCall_FirstState(i, fn, ptr) ==
  [fn |-> fn, state |-> 10 * i + 1, prop |-> PropArg(i)]

\* The arguments every module call is made with: ptr->customFW_private_data
\* and &(filter->prop) (lines 137, 145, 174, 196, 217).
ModuleCall(i, fn, ptr) ==
  [fn |-> fn, state |-> ptr.customFW_private_data, prop |-> PropArg(i)]

\* A dispatcher that hands back the output buffer whatever the status is.
InvokeReturn_AnyStatus(status, outptr) == outptr

\* Lines 139-142: outptr if the module returned 0, NULL otherwise.
InvokeReturn(status, outptr) == IF status = 0 THEN outptr ELSE NULL

\* A dispatcher that calls invoke again after a failure.
InvokeCalls_Retry(i, ptr, status) ==
  IF status = 0 THEN <<ModuleCall(i, "invoke", ptr)>>
  ELSE <<ModuleCall(i, "invoke", ptr), ModuleCall(i, "invoke", ptr)>>

\* Lines 137-138: the one call of methods->invoke.
InvokeCalls(i, ptr, status) == <<ModuleCall(i, "invoke", ptr)>>

custom_invoke(i) ==
  /\ Running
  /\ LoadBound(i)
  /\ UNCHANGED allocate_in_invoke
  /\ \E o \in custom_loadlib(i), inptr \in InputBuffers :
       IF o.abort # "none"
         THEN Returns(i, "invoke", o, o.pd, o.calls, o.abort, NULL, NoInfo, NoIO)
       ELSE IF ~LoadedAssert(o.retval)
         THEN Returns(i, "invoke", o, o.pd, o.calls, "assert:132", NULL, NoInfo, NoIO)
       ELSE
         LET ptr == o.pd[1] IN
         IF ptr.methods.invoke
           THEN \E outptr \in OutputBuffers(inptr), status \in InvokeStatus :
                  Returns(i, "invoke", o, o.pd,
                          o.calls \o InvokeCalls(i, ptr, status), "none",
                          InvokeReturn(status, outptr), NoInfo,
                          [NoIO EXCEPT !.inptr = inptr, !.outptr = outptr,
                                       !.status = status])
         ELSE IF ptr.methods.allocate_invoke
           THEN \E retptr \in {NULL, ModuleBuffer}, size \in ReportedSizes(i),
                   written \in BOOLEAN :
                  Returns(i, "invoke", o, o.pd,
                          o.calls \o <<ModuleCall(i, "allocate_invoke", ptr)>>,
                          IF SizeAssert(i, size) THEN "none" ELSE "assert:147",
                          retptr, NoInfo,
                          [NoIO EXCEPT !.inptr = inptr, !.buf = retptr,
                                       !.size = size, !.written = written])
         ELSE Returns(i, "invoke", o, o.pd, o.calls, "none", NULL, NoInfo, NoIO)

(***************************************************************************)
(* custom_getInputDim, custom_getOutputDim, custom_setInputDim.  The       *)
(* module answers with a status and fills *info.                           *)
(***************************************************************************)
DimStatus == {0, -1}

\* A handler that looks at the entry of another handler.
EntryAbsent_InputGetter(methods, fn) == ~methods.getInputDim

\* Lines 170, 192, 214: the entry the handler is about to call is NULL.
EntryAbsent(methods, fn) == ~methods[fn]

\* A handler that returns the module's status and leaves *info untouched.
DimAnswer_StatusOnly(status, info) == [ret |-> status, info |-> NoInfo]

\* Lines 174-175, 196-197, 217-218: the module is handed the caller's info
\* pointer, and its status is the handler's result.
DimAnswer(status, info) == [ret |-> status, info |-> info]

\* The three handlers differ in the table entry they use and in the line of
\* the assertion on custom_loadlib's result.
DimCall(i, op, fn, site) ==
  /\ Running
  /\ LoadBound(i)
  /\ UNCHANGED allocate_in_invoke
  /\ \E o \in custom_loadlib(i) :
       IF o.abort # "none"
         THEN Returns(i, op, o, o.pd, o.calls, o.abort, 0, NoInfo, NoIO)
       ELSE IF ~LoadedAssert(o.retval)
         THEN Returns(i, op, o, o.pd, o.calls, site, 0, NoInfo, NoIO)
       ELSE
         LET ptr == o.pd[1] IN
         IF EntryAbsent(ptr.methods, fn)
           THEN Returns(i, op, o, o.pd, o.calls, "none", -1, NoInfo, NoIO)
           ELSE \E status \in DimStatus, info \in TensorInfos :
                  Returns(i, op, o, o.pd, o.calls \o <<ModuleCall(i, fn, ptr)>>,
                          "none", DimAnswer(status, info).ret,
                          DimAnswer(status, info).info,
                          [NoIO EXCEPT !.status = status, !.info = info])

custom_getInputDim(i) == DimCall(i, "getInputDim", "getInputDim", "assert:166")

custom_getOutputDim(i) == DimCall(i, "getOutputDim", "getOutputDim", "assert:188")

custom_setInputDim(i) == DimCall(i, "setInputDim", "setInputDim", "assert:210")

Next ==
  \E i \in Instances :
    \/ custom_open(i)
    \/ custom_invoke(i)
    \/ custom_getInputDim(i)
    \/ custom_getOutputDim(i)
    \/ custom_setInputDim(i)
    \/ custom_close(i)

Spec == Init /\ [][Next]_vars

(***************************************************************************)
(* The same handlers called from one streaming thread per instance.        *)
(* custom_loadlib takes no lock: a thread that found privateData NULL at   *)
(* line 59 stores a zero-filled internal_data in filter->privateData       *)
(* (lines 64-65) and goes on to dlopen() at line 70 whatever the other     *)
(* threads are doing.  Every handler but close starts with custom_loadlib, *)
(* so each of them can be the one inside the load.                         *)
(***************************************************************************)
\* The handlers that start with custom_loadlib, other than open.
LoadingCalls == {"invoke", "getInputDim", "getOutputDim", "setInputDim"}

\* Lines 64-67: the zero-filled internal_data is stored in filter->privateData
\* and the thread of instance i, in handler op, goes into dlopen() of line 70.
LoadEnter(i, op) ==
  /\ privateData' = [privateData EXCEPT ![i] = internal_data(FALSE, NoMethods, NULL)]
  /\ loading' = [loading EXCEPT ![i] = op]
  /\ UNCHANGED <<prop, allocate_in_invoke, dl_held, module_states,
                 next_state, aborted, life, last, example_vars, test_vars>>

\* Line 59 finds privateData NULL: the call of instance i loads.
MustLoad(i) ==
  /\ Running
  /\ loading[i] = "idle"
  /\ ~AlreadyLoaded(privateData[i])
  /\ LoadBound(i)

\* custom_open, lines 59-70.
OpenEnter(i) ==
  /\ MustLoad(i)
  /\ LoadEnter(i, "open")

\* Lines 70-116: the load, the assertions and the return of custom_open.
OpenFinish(i) == loading[i] = "open" /\ custom_open(i)

\* Lines 59-62 and 109: an open that finds the handle set does not load.
Reopen(i) ==
  /\ loading[i] = "idle"
  /\ AlreadyLoaded(privateData[i])
  /\ custom_open(i)

\* A handler other than open, called on an instance without internal_data,
\* enters the load as open does (lines 128, 163, 185, 207).
CallEnter(i) ==
  /\ MustLoad(i)
  /\ \E op \in LoadingCalls : LoadEnter(i, op)

\* Lines 70-97 and the rest of the handler that entered the load.
CallFinish(i) ==
  \/ loading[i] = "invoke" /\ custom_invoke(i)
  \/ loading[i] = "getInputDim" /\ custom_getInputDim(i)
  \/ loading[i] = "getOutputDim" /\ custom_getOutputDim(i)
  \/ loading[i] = "setInputDim" /\ custom_setInputDim(i)

\* A handler that finds the internal_data set, and close, which does not
\* call custom_loadlib; the thread is not inside a load.
ThreadCall(i) ==
  /\ loading[i] = "idle"
  /\ \/ /\ AlreadyLoaded(privateData[i])
        /\ \/ custom_invoke(i)
           \/ custom_getInputDim(i)
           \/ custom_getOutputDim(i)
           \/ custom_setInputDim(i)
     \/ custom_close(i)

NextThreads ==
  \E i \in Instances :
    \/ OpenEnter(i)
    \/ OpenFinish(i)
    \/ Reopen(i)
    \/ CallEnter(i)
    \/ CallFinish(i)
    \/ ThreadCall(i)

SpecThreads == Init /\ [][NextThreads]_vars

(***************************************************************************)
(* One filter with the example scaler as its module.  The handlers of the  *)
(* sub-plugin hand the module's functions the configuration and the        *)
(* buffers of the host and return their results as they are, so the steps  *)
(* are the module's functions: initfunc at open, setInputDim at            *)
(* negotiation (the host stores the result as its output_meta), invoke at  *)
(* every run, exitfunc at close.                                           *)
(***************************************************************************)
\* An output info the host may hold before any negotiation.
PresetOutputMeta == [dimension |-> <<2, 1, 1, 2>>, type |-> "uint16"]

\* The sub-plugin with no instance opened, both configured with the scaler.
FilterIdle ==
  /\ prop = [i \in Instances |->
               [model_file |-> [loadable |-> TRUE, symbol |-> TRUE, table |-> TRUE,
                                methods |-> [NoMethods EXCEPT
                                               !.initfunc = TRUE,
                                               !.exitfunc = TRUE,
                                               !.setInputDim = TRUE,
                                               !.invoke = TRUE]],
                output_meta |-> HostOutputMeta(i)]]
  /\ privateData = [i \in Instances |-> NoData]
  /\ allocate_in_invoke = FALSE
  /\ dl_held = [i \in Instances |-> 0]
  /\ module_states = {}
  /\ next_state = [i \in Instances |-> 1]
  /\ aborted = "none"
  /\ life = [i \in Instances |-> NoLife]
  /\ last = NoCall
  /\ loading = [i \in Instances |-> "idle"]

InitScaler ==
  /\ FilterIdle
  /\ pipeline = NoPipeline
  /\ \E cp \in CustomProperties, in \in ScalerInfos :
       \E out \in {in, PresetOutputMeta} :
         scaler = [NoScaler EXCEPT !.pc = "loaded", !.custom_properties = cp,
                                   !.input_meta = in, !.output_meta = out]

ScalerLive == scaler.pc \in {"inited", "negotiated", "ran"} /\ scaler.abort = "none"

\* custom_open, line 90: initfunc (&filter->prop).
ScalerInit ==
  /\ scaler.pc = "loaded"
  /\ scaler' = [scaler EXCEPT !.pc = "inited",
                              !.data = <<pt_init(scaler.custom_properties)>>]
  /\ UNCHANGED <<filter_vars, test_vars>>

\* custom_setInputDim, lines 217-218: setInputDim (state, prop, in, out).
ScalerSetInputDim ==
  /\ ScalerLive
  /\ LET out_info == set_inputDim(scaler.data[1], scaler.input_meta) IN
     scaler' = [scaler EXCEPT !.pc = "negotiated", !.out_info = out_info,
                              !.ret = 0,
                              !.output_meta = ConfiguredFrom(out_info)]
  /\ UNCHANGED <<filter_vars, test_vars>>

\* custom_invoke, lines 137-138: invoke (state, prop, inptr, outptr), with
\* an output buffer of the host's own.
ScalerInvoke ==
  /\ ScalerLive
  /\ \E inptr \in InputBuffers :
       \E outptr \in OutputBuffers(inptr) \ {inptr} :
         LET r == pt_invoke(scaler.data, scaler.input_meta, scaler.output_meta,
                            inptr, outptr)
         IN scaler' = [scaler EXCEPT !.pc = "ran", !.inptr = inptr,
                                     !.outptr = outptr, !.ret = r.ret,
                                     !.abort = r.abort, !.writes = r.writes]
  /\ UNCHANGED <<filter_vars, test_vars>>

\* custom_invoke, lines 137-138, called with the input buffer as the output
\* buffer: the module is entered, and what it wrote before an assertion
\* stopped it is written over its input.
ScalerInvokeInPlace ==
  /\ ScalerLive
  /\ \E inptr \in {b \in InputBuffers : b \in OutputBuffers(b)} :
       LET r == pt_invoke(scaler.data, scaler.input_meta, scaler.output_meta,
                          inptr, inptr)
       IN scaler' = [scaler EXCEPT !.pc = "ran_in_place", !.inptr = inptr,
                                   !.outptr = inptr, !.ret = r.ret,
                                   !.abort = r.abort, !.writes = r.writes]
  /\ UNCHANGED <<filter_vars, test_vars>>

\* custom_close, line 229: exitfunc (state, prop).
ScalerExit ==
  /\ ScalerLive
  /\ scaler' = [scaler EXCEPT !.pc = "exited", !.abort = pt_exit(scaler.data),
                              !.data = <<>>]
  /\ UNCHANGED <<filter_vars, test_vars>>

NextScaler ==
  \/ ScalerInit
  \/ ScalerSetInputDim
  \/ ScalerInvoke
  \/ ScalerInvokeInPlace
  \/ ScalerExit

SpecScaler == InitScaler /\ [][NextScaler]_vars

(***************************************************************************)
(* The scaler on tensors that are wide or high enough for the products     *)
(* x * dimension[1] and y * dimension[2] of lines 181-182 to pass the      *)
(* largest uint32_t, next to small ones.                                   *)
(***************************************************************************)
\* Bound of the model: the least width at which x * dimension[1] wraps for
\* some x below the width.
WideDim == 65537

\* A dimension for which a product with a small x already wraps.
HugeDim == 2 ^ (WordBits - 2)

\* The targets given to the small tensors: none, and some that enlarge,
\* shrink or keep them.
WideProperties ==
  {NoString, Str(<<>>), Str(<<"2", "x", "1">>), Str(<<"1", "X", "2">>),
   Str(<<"3", ":", "2">>)}

\* The custom property and the input info of a filter.  A wide tensor has
\* no target, so that every column is sampled; a huge tensor has a small
\* target.
WideCases ==
  (WideProperties \X ScalerInfos)
  \cup {<<NoString, [dimension |-> <<1, WideDim, 1, 1>>, type |-> "uint8"]>>,
        <<Str(<<"1", "2", " ", "1">>),
          [dimension |-> <<1, HugeDim, 1, 1>>, type |-> "uint8"]>>,
        <<Str(<<"1", "x", "1", "2">>),
          [dimension |-> <<1, 1, HugeDim, 1>>, type |-> "uint8"]>>}

InitWide ==
  /\ FilterIdle
  /\ pipeline = NoPipeline
  /\ \E case \in WideCases :
       \E out \in {case[2], PresetOutputMeta} :
         scaler = [NoScaler EXCEPT !.pc = "loaded",
                                   !.custom_properties = case[1],
                                   !.input_meta = case[2], !.output_meta = out]

SpecWide == InitWide /\ [][NextScaler]_vars

(***************************************************************************)
(* The tests of unittest_sink.cpp, one after the other in one process:     *)
(* _setup_pipeline, gst_element_set_state (PLAYING), g_main_loop_run until *)
(* _message_cb quits it, gst_element_set_state (NULL).  From PLAYING to    *)
(* NULL the streaming thread of the pipeline calls the callbacks connected *)
(* to tensor_sink, and while the main loop runs it hands the messages of   *)
(* the bus to _message_cb.  Nothing but _setup_pipeline resets g_test_data *)
(* between two tests.                                                      *)
(***************************************************************************)
InitPipeline ==
  /\ FilterIdle
  /\ scaler = NoScaler
  /\ pipeline = NoPipeline

\* No test is running: none has run yet, or the last one has ended.
BetweenTests == pipeline.pc \in {"none", "failed", "done"}

\* A test begins: _setup_pipeline returns TRUE, and the test connects its
\* callbacks for stream-start and eos or does not.
SetupPipeline ==
  /\ BetweenTests
  /\ \E signals \in BOOLEAN :
       pipeline' = [pc |-> "init", signals |-> signals,
                    data |-> setup_pipeline(pipeline.data)]
  /\ UNCHANGED <<filter_vars, example_vars>>

\* A test begins and a check of _setup_pipeline fails: lines 499-501 free
\* what was made and return FALSE, and ASSERT_TRUE ends the test.
SetupFails ==
  /\ BetweenTests
  /\ pipeline' = [pc |-> "failed", signals |-> FALSE,
                  data |-> setup_reset(pipeline.data)]
  /\ UNCHANGED <<filter_vars, example_vars>>

\* A test that does not play its pipeline ends (line 568).
PipelineFree ==
  /\ pipeline.pc = "init"
  /\ pipeline' = [pipeline EXCEPT !.pc = "done"]
  /\ UNCHANGED <<filter_vars, example_vars>>

\* gst_element_set_state (PLAYING) returns and g_main_loop_run starts;
\* g_test_data is as _setup_pipeline left it.
PipelinePlay ==
  /\ pipeline.pc = "init"
  /\ pipeline' = [pipeline EXCEPT !.pc = "playing"]
  /\ UNCHANGED <<filter_vars, example_vars>>

\* The pipeline is between PLAYING and NULL: its streaming thread runs.
Streaming == pipeline.pc \in {"playing", "quit"}

\* tensor_sink emits new-data with a buffer: _new_data_cb.
NewDataSignal ==
  /\ Streaming
  /\ pipeline.data.received < MaxBuffers
  /\ \E size \in 1..MaxBufferSize :
       pipeline' = [pipeline EXCEPT !.data = new_data_cb(@, size)]
  /\ UNCHANGED <<filter_vars, example_vars>>

\* tensor_sink emits stream-start: _stream_start_cb, when it is connected.
StreamStartSignal ==
  /\ Streaming
  /\ pipeline.signals
  /\ pipeline' = [pipeline EXCEPT !.data = stream_start_cb(@)]
  /\ UNCHANGED <<filter_vars, example_vars>>

\* tensor_sink emits eos: _eos_cb, when it is connected.
EosSignal ==
  /\ Streaming
  /\ pipeline.signals
  /\ pipeline' = [pipeline EXCEPT !.data = eos_cb(@)]
  /\ UNCHANGED <<filter_vars, example_vars>>

\* The main loop hands a message of the bus to _message_cb;
\* g_main_loop_quit ends g_main_loop_run.
BusMessage ==
  /\ pipeline.pc = "playing"
  /\ \E message \in Messages :
       LET data == message_cb(pipeline.data, message)
       IN pipeline' = [pipeline EXCEPT
                         !.data = data,
                         !.pc = IF data.quit THEN "quit" ELSE "playing"]
  /\ UNCHANGED <<filter_vars, example_vars>>

\* gst_element_set_state (NULL) after the main loop: the pipeline stops.
PipelineStop ==
  /\ pipeline.pc = "quit"
  /\ pipeline' = [pipeline EXCEPT !.pc = "done"]
  /\ UNCHANGED <<filter_vars, example_vars>>

NextPipeline ==
  \/ SetupPipeline
  \/ SetupFails
  \/ PipelineFree
  \/ PipelinePlay
  \/ NewDataSignal
  \/ StreamStartSignal
  \/ EosSignal
  \/ BusMessage
  \/ PipelineStop

SpecPipeline == InitPipeline /\ [][NextPipeline]_vars

(***************************************************************************)
(* The vocabulary of the specification.                                    *)
(***************************************************************************)
\* The table of the module that instance i is configured with.
TableOf(i) == prop[i].model_file.methods

\* The library of instance i loads and exports a table.
Resolves(i) ==
  /\ prop[i].model_file.loadable
  /\ prop[i].model_file.symbol
  /\ prop[i].model_file.table

\* ContractViolation: an assertion on the module's table ended the process.
ContractViolation == aborted \in {"assert:89", "assert:94", "assert:112"}

\* A lifecycle error: a call other than open found no loaded library.
LifecycleError == aborted \in {"assert:132", "assert:166", "assert:188", "assert:210"}

\* Invariant 1 of the specification.
HasInitAndExit(m) == m.initfunc /\ m.exitfunc

\* Invariant 2: the static pair of getters, or set_shapes, and never both.
StaticMode(m) == m.getInputDim /\ m.getOutputDim /\ ~m.setInputDim
DynamicMode(m) == ~m.getInputDim /\ ~m.getOutputDim /\ m.setInputDim
OneDiscoveryMode(m) == StaticMode(m) \/ DynamicMode(m)

\* Invariant 3: invoke or allocate_invoke, and never both.
OneOwnershipMode(m) ==
  (m.invoke /\ ~m.allocate_invoke) \/ (~m.invoke /\ m.allocate_invoke)

\* The most recent call was op, on an instance whose library resolves.
Called(op) == last.op = op /\ Resolves(last.inst)

\* C1: an open on a module whose table does not have exactly one
\* shape-discovery mode (the two getters without setInputDim, or setInputDim
\* without either getter) fails with ContractViolation, and an open that
\* succeeds has found exactly one mode.
C1_ShapeModeChecked ==
  Called("open") =>
    /\ ~OneDiscoveryMode(TableOf(last.inst)) => ContractViolation
    /\ aborted = "none" => OneDiscoveryMode(TableOf(last.inst))

\* An open failed on a table with one getter only.
C1_Witness ==
  /\ Called("open")
  /\ aborted = "assert:94"
  /\ TableOf(last.inst).getInputDim
  /\ ~TableOf(last.inst).getOutputDim
  /\ ~TableOf(last.inst).setInputDim

\* C2: an open on a module with neither invoke nor allocate_invoke, or with
\* both, fails with ContractViolation; an open that succeeds has found
\* exactly one of the two.
C2_OwnershipModeChecked ==
  Called("open") =>
    /\ ~OneOwnershipMode(TableOf(last.inst)) => ContractViolation
    /\ aborted = "none" => OneOwnershipMode(TableOf(last.inst))

\* An open failed on a table that has both invoke and allocate_invoke, and
\* is valid otherwise.
C2_Witness ==
  /\ Called("open")
  /\ aborted = "assert:112"
  /\ TableOf(last.inst).invoke
  /\ TableOf(last.inst).allocate_invoke

\* C3: the first open of an instance whose library loads and whose table
\* satisfies invariants 1-3 succeeds, leaves a non-null handle that holds the
\* state initfunc returned, and records one discovery mode and the ownership
\* mode of this module: allocate_in_invoke iff allocate_invoke is present.
C3_ValidOpenRecordsModes ==
  (/\ Called("open")
   /\ last.loaded
   /\ HasInitAndExit(TableOf(last.inst))
   /\ OneDiscoveryMode(TableOf(last.inst))
   /\ OneOwnershipMode(TableOf(last.inst)))
  => /\ aborted = "none"
     /\ privateData[last.inst] # NoData
     /\ last.calls = <<[fn |-> "initfunc",
                        state |-> privateData[last.inst][1].customFW_private_data,
                        prop |-> last.inst]>>
     /\ privateData[last.inst][1].customFW_private_data # NULL
     /\ OneDiscoveryMode(privateData[last.inst][1].methods)
     /\ allocate_in_invoke = TableOf(last.inst).allocate_invoke

\* The instance has an open handle.
IsOpen(i) == privateData[i] # NoData

\* C4 as the specification states it: an open on an instance that already
\* has a handle returns success and leaves the handle, the table and the
\* module state as they were.
C4_ReopenSucceeds ==
  [][\A i \in Instances :
       (IsOpen(i) /\ custom_open(i)) =>
         (aborted' = "none" /\ privateData'[i] = privateData[i])]_vars

\* C4, amended: an open on an instance that already has a handle does not
\* load the library again and calls no module function, the handle, the
\* table and the module state stay as they were, and the call fails the
\* assertion of line 109 instead of returning.
C4_ReopenSkipsLoadAndAborts ==
  [][\A i \in Instances :
       (IsOpen(i) /\ custom_open(i)) =>
         /\ aborted' = "assert:109"
         /\ privateData' = privateData
         /\ dl_held' = dl_held
         /\ module_states' = module_states
         /\ last'.calls = <<>>
         /\ ~last'.loaded]_vars

\* A second open was made on an open handle.
C4_Witness ==
  /\ last.op = "open"
  /\ aborted = "assert:109"
  /\ IsOpen(last.inst)
  /\ dl_held[last.inst] = 1

\* C5: initfunc is called at most once between the creation of a handle and
\* its close, and no call replaces the module state a handle holds.
C5_InitOncePerHandle ==
  [][\A i \in Instances :
       /\ life'[i].inits <= 1
       /\ (IsOpen(i) /\ privateData'[i] # NoData) =>
            privateData'[i][1].customFW_private_data
              = privateData[i][1].customFW_private_data]_vars

\* A call that entered the loader again returned on an open handle.
C5_Witness ==
  /\ last.op \in {"invoke", "getInputDim", "getOutputDim", "setInputDim"}
  /\ aborted = "none"
  /\ IsOpen(last.inst)
  /\ life[last.inst].inits = 1
  /\ life[last.inst].others = 1

\* C6: an open on a module whose table lacks initfunc or exitfunc fails with
\* ContractViolation, and close never calls through an absent exitfunc.
C6_InitAndExitChecked ==
  /\ (Called("open") /\ ~HasInitAndExit(TableOf(last.inst))) => ContractViolation
  /\ aborted # "segv:229:exitfunc"

\* C7 as the specification states it: when open fails on the shape or the
\* ownership assertion, initfunc has not been called and no module state
\* exists.
C7_ValidatedBeforeInit ==
  (last.op = "open" /\ aborted \in {"assert:94", "assert:112"}) =>
    /\ last.calls = <<>>
    /\ life[last.inst].inits = 0
    /\ module_states = {}

\* C7, amended: only the presence of initfunc is checked before initfunc is
\* called.  When open fails on the shape or the ownership assertion,
\* initfunc has been called once and the state it returned is held by the
\* handle and was not given to exitfunc; when open fails because initfunc is
\* absent, no module function has been called.
C7_InitBeforeValidation ==
  last.op = "open" =>
    /\ aborted \in {"assert:94", "assert:112"} =>
         /\ Len(last.calls) = 1
         /\ last.calls[1].fn = "initfunc"
         /\ last.calls[1].state \in module_states
         /\ privateData[last.inst][1].customFW_private_data = last.calls[1].state
         /\ life[last.inst].exits = 0
    /\ aborted = "assert:89" => (last.calls = <<>> /\ life[last.inst].inits = 0)

\* An open failed on the shape assertion after initfunc had run.
C7_Witness ==
  /\ last.op = "open"
  /\ aborted = "assert:94"
  /\ life[last.inst].inits = 1

\* C8: after close has returned, exitfunc has been called with the module
\* state, the state is released, the handle is null and the instance holds
\* no loaded library.
C8_CloseReleasesAll ==
  (last.op = "close" /\ aborted = "none") =>
    /\ Len(last.calls) = 1
    /\ last.calls[1].fn = "exitfunc"
    /\ last.calls[1].state \notin module_states
    /\ privateData[last.inst] = NoData
    /\ dl_held[last.inst] = 0

\* C9: in the lifetime of a handle initfunc is the first module call and is
\* made once, exitfunc is the last and is made once, by close, and exitfunc
\* is not called without initfunc before it.
C9_InitThenCallsThenExit ==
  \A i \in Instances :
    /\ life[i].ordered
    /\ life[i].inits <= 1
    /\ life[i].exits <= 1
    /\ life[i].exits = 1 => life[i].inits = 1
    /\ (IsOpen(i) /\ aborted = "none") => (life[i].inits = 1 /\ life[i].exits = 0)
    /\ (last.op = "close" /\ last.inst = i /\ aborted = "none") =>
         (life[i].inits = 1 /\ life[i].exits = 1 /\ last.calls[1].fn = "exitfunc")

\* A handle was opened, used and closed.
C9_Witness ==
  /\ last.op = "close"
  /\ aborted = "none"
  /\ life[last.inst] = [inits |-> 1, exits |-> 1, others |-> 1, ordered |-> TRUE]

\* The instance was closed and has not been opened since.
IsClosed(i) == privateData[i] = NoData /\ life[i].exits = 1

\* The functions of the module other than initfunc and exitfunc.
DispatchedFns ==
  {"invoke", "allocate_invoke", "getInputDim", "getOutputDim", "setInputDim"}

\* C10: a run or a negotiation call on a closed instance ends in a lifecycle
\* error: it does not return, and it calls none of the module's invoke and
\* shape functions.
C10_CallAfterCloseRejected ==
  [][\A i \in Instances :
       (/\ IsClosed(i)
        /\ \/ custom_invoke(i)
           \/ custom_getInputDim(i)
           \/ custom_getOutputDim(i)
           \/ custom_setInputDim(i))
       => /\ LifecycleError'
          /\ \A k \in DOMAIN last'.calls : last'.calls[k].fn \notin DispatchedFns]_vars

\* A run was made on a closed instance.
C10_Witness ==
  /\ last.op = "invoke"
  /\ aborted = "assert:132"
  /\ dl_held[last.inst] = 2
  /\ life[last.inst].exits = 0

\* The functions a run may call.
InvokeFns == {"invoke", "allocate_invoke"}

\* The most recent call made the module call fn, and it was its last one.
Dispatched(op, fn) ==
  /\ last.op = op
  /\ last.calls # <<>>
  /\ last.calls[Len(last.calls)].fn = fn

\* No module function other than initfunc has been called since the open,
\* so no shape negotiation has succeeded on this handle.
NotNegotiated(i) == IsOpen(i) /\ life[i].others = 0

\* C11: a run on an open handle on which no shape negotiation has succeeded
\* since open is rejected and calls neither invoke nor allocate_invoke.
C11_RunBeforeNegotiationRejected ==
  [][\A i \in Instances :
       (NotNegotiated(i) /\ custom_invoke(i)) =>
         /\ aborted' # "none"
         /\ \A k \in DOMAIN last'.calls : last'.calls[k].fn \notin InvokeFns]_vars

\* C12: in host-allocates mode a run calls the module's invoke with the
\* output buffer of the caller, and returns that buffer if and only if invoke
\* returned 0; for every other status it returns NULL.
C12_HostAllocatesReturn ==
  /\ (last.op = "invoke" /\ aborted = "none" /\ TableOf(last.inst).invoke) =>
       Dispatched("invoke", "invoke")
  /\ Dispatched("invoke", "invoke") =>
       /\ aborted = "none"
       /\ last.io.outptr \in HostBuffers
       /\ last.io.status = 0 => last.ret = last.io.outptr
       /\ last.io.status # 0 => last.ret = NULL

\* The module's invoke failed and the run returned NULL.
C12_Witness ==
  /\ Dispatched("invoke", "invoke")
  /\ last.io.status = -1
  /\ last.ret = NULL

\* The byte size of the output tensor the host configured for instance i.
ConfiguredOutputBytes(i) ==
  LET d == prop[i].output_meta.dimension IN
  d[1] * d[2] * d[3] * d[4] * tensor_element_size(prop[i].output_meta.type)

\* C13: in module-allocates mode a run returns the module's buffer only when
\* the size the module reported is element count times element size of the
\* configured output tensor; with any other size the run fails with
\* SizeMismatch and returns nothing.
C13_ModuleAllocatesSizeChecked ==
  Dispatched("invoke", "allocate_invoke") =>
    /\ last.io.size = ConfiguredOutputBytes(last.inst) =>
         (aborted = "none" /\ last.ret = last.io.buf)
    /\ last.io.size # ConfiguredOutputBytes(last.inst) => aborted = "assert:147"
    /\ aborted \in {"none", "assert:147"}

\* A module reported a size that is not the size of the output tensor.
C13_Witness ==
  /\ Dispatched("invoke", "allocate_invoke")
  /\ last.io.written
  /\ last.io.buf = ModuleBuffer
  /\ last.io.size # ConfiguredOutputBytes(last.inst)
  /\ aborted = "assert:147"

\* The negotiation calls.
DimOps == {"getInputDim", "getOutputDim", "setInputDim"}

\* The negotiation call op applies to the discovery mode of table m.
Applicable(op, m) ==
  IF op = "setInputDim" THEN DynamicMode(m) ELSE StaticMode(m)

\* C14: on an open handle a negotiation call that does not apply to the
\* module's discovery mode returns -1 without calling the module; one that
\* applies calls the corresponding module function once, with the state of
\* the handle, and returns its status and tensor info unchanged.
C14_NegotiationByMode ==
  (last.op \in DimOps /\ aborted = "none") =>
    /\ IsOpen(last.inst)
    /\ Applicable(last.op, TableOf(last.inst)) =>
         /\ last.calls =
              <<[fn |-> last.op,
                 state |-> privateData[last.inst][1].customFW_private_data,
                 prop |-> last.inst]>>
         /\ last.ret = last.io.status
         /\ last.info = last.io.info
         /\ last.info \in TensorInfos
    /\ ~Applicable(last.op, TableOf(last.inst)) =>
         (last.calls = <<>> /\ last.ret = -1 /\ last.info = NoInfo)

\* A dynamic-mode module negotiated an output, and failed doing so.
C14_Witness ==
  /\ last.op = "setInputDim"
  /\ aborted = "none"
  /\ DynamicMode(TableOf(last.inst))
  /\ last.ret = -1
  /\ last.calls # <<>>

\* LoadError: the loader returned -1 and open failed on it.
LoadError == aborted = "assert:109" /\ privateData[last.inst] = NoData

\* C15: an open on a library that cannot be opened, or that lacks the table
\* symbol, fails with LoadError: initfunc is not called, no library handle is
\* left held and the instance is left without a handle.
C15_LoadFailureReleases ==
  (last.op = "open" /\ ~Resolves(last.inst)) =>
    /\ LoadError
    /\ last.calls = <<>>
    /\ dl_held[last.inst] = 0
    /\ privateData[last.inst] = NoData

\* A fatal condition: ContractViolation, SizeMismatch or a lifecycle error.
Fatal == ContractViolation \/ aborted = "assert:147" \/ LifecycleError

\* Any framework call on instance j.
AnyCall(j) ==
  \/ custom_open(j)
  \/ custom_invoke(j)
  \/ custom_getInputDim(j)
  \/ custom_getOutputDim(j)
  \/ custom_setInputDim(j)
  \/ custom_close(j)

\* C16 as the specification states it: after a fatal condition raised for
\* one instance, every other instance that is open can still be run and
\* closed.
C16_FatalEndsOneInstance ==
  \A j \in Instances :
    (Fatal /\ last.inst # j /\ IsOpen(j)) =>
      (ENABLED custom_invoke(j) /\ ENABLED custom_close(j))

\* C16, amended: a fatal condition raised for one instance ends the process.
\* The handle of every other open instance is as it was, still holding a
\* module state that exitfunc has not been given, but no call can be made on
\* any instance afterwards.
C16_FatalEndsProcess ==
  Fatal =>
    \A j \in Instances :
      /\ ~ENABLED AnyCall(j)
      /\ (last.inst # j /\ IsOpen(j)) =>
           /\ privateData[j][1].customFW_private_data \in module_states
           /\ life[j].inits = 1
           /\ life[j].exits = 0

\* A fatal condition was raised for one instance while another was open.
C16_Witness ==
  /\ aborted = "assert:147"
  /\ \E j \in Instances : last.inst # j /\ IsOpen(j) /\ life[j].others = 1

\* The most recent call was a run whose invoke returned a non-zero status.
InvocationError == Dispatched("invoke", "invoke") /\ last.io.status # 0

\* C17: a run that ends in InvocationError leaves the handle as it was and
\* open; a following run whose invoke reports success returns its output
\* buffer, and a close of the handle calls the module's exitfunc once, with
\* the state of the handle.
C17_InvocationErrorNotFatal ==
  /\ [](InvocationError =>
          LET i == last.inst
              state == privateData[i][1].customFW_private_data
          IN /\ aborted = "none"
             /\ last.ret = NULL
             /\ IsOpen(i)
             /\ state \in module_states
             /\ life[i].exits = 0
             /\ ENABLED (/\ custom_invoke(i)
                         /\ aborted' = "none"
                         /\ last'.io.status = 0
                         /\ last'.ret = last'.io.outptr
                         /\ last'.ret # NULL)
             /\ TableOf(i).exitfunc =>
                  ENABLED (/\ custom_close(i)
                           /\ aborted' = "none"
                           /\ last'.calls =
                                <<[fn |-> "exitfunc", state |-> state, prop |-> i]>>
                           /\ life'[i].exits = 1))
  /\ [][InvocationError' =>
          /\ privateData' = privateData
          /\ module_states' = module_states
          /\ dl_held' = dl_held
          /\ allocate_in_invoke' = allocate_in_invoke]_vars

\* A run ended in InvocationError on an open handle whose module has exitfunc.
C17_Witness ==
  /\ InvocationError
  /\ IsOpen(last.inst)
  /\ TableOf(last.inst).exitfunc

\* C18: a run calls the module at most once: a run on an open handle makes
\* exactly one call, of invoke or of allocate_invoke, whatever the module
\* answers, and no run repeats a call.
C18_OneModuleCallPerRun ==
  last.op = "invoke" =>
    /\ Len(last.calls) <= 1
    /\ aborted \in {"none", "assert:147"} =>
         (Len(last.calls) = 1 /\ last.calls[1].fn \in InvokeFns)

\* A run returned after the module failed it.
C18_Witness ==
  /\ last.op = "invoke"
  /\ aborted = "none"
  /\ Len(last.calls) = 1
  /\ last.ret = NULL

\* C20: no two instances configured with the same module path are inside
\* the library load at the same time.
C20_SingleFlightLoading ==
  \A i, j \in Instances :
    (i # j /\ prop[i].model_file = prop[j].model_file) =>
      ~(InDlopen(i) /\ InDlopen(j))

\* C21: a get_input_shape or get_output_shape call on the open handle of a
\* static-mode module, whatever calls came before it, calls the module's
\* getter once with the state of the handle and returns exactly the status
\* and the shape the module answered with; it changes neither the handle, the
\* table, the module state, the held library nor the configuration.
C21_StaticShapesPassThrough ==
  [][\A op \in {"getInputDim", "getOutputDim"} :
       (/\ last'.op = op
        /\ aborted' = "none"
        /\ StaticMode(TableOf(last'.inst))) =>
         /\ last'.calls =
              <<[fn |-> op,
                 state |-> privateData[last'.inst][1].customFW_private_data,
                 prop |-> last'.inst]>>
         /\ last'.ret = last'.io.status
         /\ last'.info = last'.io.info
         /\ privateData' = privateData
         /\ module_states' = module_states
         /\ dl_held' = dl_held
         /\ prop' = prop]_vars

\* A static-mode module answered getOutputDim with a shape on an open handle.
C21_Witness ==
  /\ Dispatched("getOutputDim", "getOutputDim")
  /\ aborted = "none"
  /\ StaticMode(TableOf(last.inst))
  /\ life[last.inst].others = 1
  /\ last.ret = 0
  /\ last.info = [dimension |-> <<3, 2, 2, 1>>, type |-> "uint8"]

\* C25: every module call a handler makes receives the configuration of the
\* instance the handler was called for, and no handler modifies a
\* configuration.
C25_ConfigPassedUnchanged ==
  /\ [](\A k \in DOMAIN last.calls : last.calls[k].prop = last.inst)
  /\ [][prop' = prop]_vars

\* The second instance's module was called, with the second configuration.
C25_Witness ==
  /\ last.inst = 2
  /\ aborted = "none"
  /\ Dispatched("invoke", "allocate_invoke")
  /\ last.calls[1].prop = 2

\* C26: a failed open reports a library that cannot be loaded and a table
\* symbol that is missing or holds no table as two different outcomes: open
\* fails on its check of the loader's result in both, without a message for
\* the first and with the loadlib error for the second.
C26_LoadFailuresDistinguished ==
  (last.op = "open" /\ ~Resolves(last.inst)) =>
    /\ aborted = "assert:109"
    /\ last.log = IF prop[last.inst].model_file.loadable THEN SymbolError
                  ELSE "none"

\* C30: an open instance whose module has invoke and no allocate_invoke is
\* treated as host-allocating: the framework's allocate_in_invoke is false
\* while it is open, whatever modules other instances have opened.
C30_OwnershipModePerInstance ==
  \A i \in Instances :
    (/\ IsOpen(i)
     /\ aborted = "none"
     /\ privateData[i][1].methods.invoke
     /\ ~privateData[i][1].methods.allocate_invoke) => ~allocate_in_invoke

\* The output info the scaler's setInputDim returned is the one the host has
\* configured.
ScalerNegotiated ==
  /\ scaler.out_info # NoOutInfo
  /\ scaler.output_meta = ConfiguredFrom(scaler.out_info)

\* C22: with new_x > 0 and new_y > 0 the scaler's setInputDim answers an
\* input info [d0, d1, d2, d3] / t with status 0 and exactly one tensor
\* [d0, new_x, new_y, d3] / t.
C22_ScalerOutputShape ==
  (/\ scaler.pc = "negotiated"
   /\ scaler.data[1].new_x > 0
   /\ scaler.data[1].new_y > 0) =>
    /\ scaler.ret = 0
    /\ scaler.out_info.num_tensors = 1
    /\ scaler.out_info.dimension =
         <<scaler.input_meta.dimension[1], scaler.data[1].new_x,
           scaler.data[1].new_y, scaler.input_meta.dimension[4]>>
    /\ scaler.out_info.type = scaler.input_meta.type

\* The target "2x1" turned the input [2, 1, 2, 1] into [2, 2, 1, 1].
C22_Witness ==
  /\ scaler.pc = "negotiated"
  /\ scaler.custom_properties = Str(<<"2", "x", "1">>)
  /\ scaler.input_meta = [dimension |-> <<2, 1, 2, 1>>, type |-> "uint16"]
  /\ scaler.out_info =
       [num_tensors |-> 1, dimension |-> <<2, 2, 1, 1>>, type |-> "uint16"]

\* C23: once the host has configured the output info the scaler negotiated,
\* a run returns 0 after writing every byte offset below the byte size of
\* the output tensor exactly once, and no offset at or above it.
C23_RunWritesEveryByteOnce ==
  (scaler.pc = "ran" /\ ScalerNegotiated) =>
    LET size == ByteSize(scaler.output_meta) IN
    /\ scaler.abort = "none"
    /\ scaler.ret = 0
    /\ \A off \in 0..(size - 1) :
         Cardinality({w \in scaler.writes : w.off = off}) = 1
    /\ \A w \in scaler.writes : w.off \in 0..(size - 1)

\* A run wrote an output tensor of another size than its input tensor.
C23_Witness ==
  /\ scaler.pc = "ran"
  /\ ScalerNegotiated
  /\ scaler.custom_properties = Str(<<"3", ":", "2">>)
  /\ scaler.input_meta = [dimension |-> <<2, 2, 1, 2>>, type |-> "uint16"]
  /\ Cardinality(scaler.writes) = 48

\* The input byte that outptr holds at offset off after the run: the source
\* of the last write to off, or -1 where nothing was written.  (The input
\* bytes are named by their offsets in inptr.)
OutputContent(off) ==
  LET hits == {w \in scaler.writes : w.off = off} IN
  IF hits = {} THEN -1
  ELSE (CHOOSE w \in hits : \A v \in hits : v.n <= w.n).src

\* C24: after a run with a target new_x by new_y, the element of the output
\* tensor at (z, y, x, c) is the element of the input tensor at
\* (z, y * in_dim2 / new_y, x * in_dim1 / new_x, c), with integer division.
C24_NearestNeighbour ==
  (/\ scaler.pc = "ran"
   /\ ScalerNegotiated
   /\ scaler.data[1].new_x > 0
   /\ scaler.data[1].new_y > 0) =>
    LET in == scaler.input_meta.dimension
        out == scaler.output_meta.dimension
        es == tensor_element_size(scaler.input_meta.type)
        new_x == scaler.data[1].new_x
        new_y == scaler.data[1].new_y
    IN /\ scaler.abort = "none"
       /\ \A z \in 0..(out[4] - 1), y \in 0..(out[3] - 1),
             x \in 0..(out[2] - 1), c \in 0..(out[1] - 1), sz \in 0..(es - 1) :
            OutputContent(es * (c + out[1] * (x + out[2] * (y + out[3] * z))) + sz)
              = es * (c + in[1] * (((x * in[2]) \div new_x)
                          + in[2] * (((y * in[3]) \div new_y) + in[3] * z))) + sz

\* A run enlarged a 2 x 1 input to 3 x 2.
C24_Witness ==
  /\ scaler.pc = "ran"
  /\ scaler.abort = "none"
  /\ scaler.data[1].new_x = 3
  /\ scaler.data[1].new_y = 2
  /\ scaler.input_meta.dimension = <<1, 2, 1, 2>>
  /\ scaler.output_meta.dimension = <<1, 3, 2, 2>>
  /\ OutputContent(2) = 1

\* A framework call other than open and close was made on instance i.
DispatchedCall(i) ==
  \/ custom_invoke(i)
  \/ custom_getInputDim(i)
  \/ custom_getOutputDim(i)
  \/ custom_setInputDim(i)

\* C31: a run, get_input_shape, get_output_shape or negotiate_output call on
\* an instance without a handle (never opened, or closed) leaves the instance
\* unchanged: it does not load the library, does not call the module's
\* initfunc, and the handle is still null after the call.
C31_RejectedCallChangesNothing ==
  [][\A i \in Instances :
       (privateData[i] = NoData /\ DispatchedCall(i)) =>
         /\ privateData'[i] = NoData
         /\ dl_held'[i] = dl_held[i]
         /\ ~last'.loaded
         /\ \A k \in DOMAIN last'.calls : last'.calls[k].fn # "initfunc"]_vars


\* What custom_loadlib returns for instance i in this state, and what it did.
LoaderReturns(i) == {o \in custom_loadlib(i) : o.abort = "none"}

\* C32: custom_loadlib returns 1 exactly when the instance has a handle at
\* entry, and then changes nothing; it returns 0 only after the library was
\* loaded, the table resolved, initfunc called and the handle stored
\* non-null; it returns -1 only on a load or symbol failure, and then the
\* handle is null.  A handler that found the handle set keeps it as it was.
C32_LoaderReturnValues ==
  /\ [](\A i \in Instances : \A o \in LoaderReturns(i) :
          /\ o.retval \in {1, 0, -1}
          /\ (o.retval = 1) <=> (privateData[i] # NoData)
          /\ o.retval = 1 =>
               /\ o.pd = privateData[i]
               /\ o.calls = <<>>
               /\ o.dl = 0
               /\ ~o.opened
          /\ o.retval = 0 =>
               /\ Resolves(i)
               /\ o.opened /\ o.dl = 1
               /\ o.pd # NoData
               /\ o.pd[1].handle
               /\ o.pd[1].methods = TableOf(i)
               /\ Len(o.calls) = 1 /\ o.calls[1].fn = "initfunc"
               /\ o.pd[1].customFW_private_data = o.calls[1].state
          /\ o.retval = -1 =>
               /\ ~Resolves(i)
               /\ o.pd = NoData
               /\ o.calls = <<>>
               /\ o.dl = 0)
  /\ [][\A i \in Instances :
          (privateData[i] # NoData /\ DispatchedCall(i)) =>
            /\ privateData'[i] = privateData[i]
            /\ dl_held' = dl_held
            /\ module_states' = module_states
            /\ ~last'.loaded]_vars

\* A negotiation call on an open instance found the library loaded, after
\* the open that loaded it, and the other instance's library cannot be loaded.
C32_Witness ==
  /\ last.op = "setInputDim"
  /\ aborted = "none"
  /\ last.calls # <<>>
  /\ life[last.inst].inits = 1
  /\ \E j \in Instances : j # last.inst /\ ~Resolves(j) /\ privateData[j] = NoData


\* The state that the most recent initfunc call of instance i returned: the
\* states of an instance are numbered in the order of its initfunc calls.
LatestInitState(i) == 10 * i + next_state[i] - 1

\* C33: every module call on an open handle (getInputDim, getOutputDim,
\* setInputDim, invoke, allocate_invoke, exitfunc) is passed the state that
\* initfunc returned during the open that made this handle; after a close
\* and a new open the calls get the state of the new initfunc, never the
\* state of the closed lifetime.
C33_ModuleStatePassed ==
  /\ \A k \in DOMAIN last.calls :
       /\ last.calls[k].state = LatestInitState(last.inst)
       /\ last.calls[k].state # NULL
  /\ \A i \in Instances :
       (privateData[i] # NoData /\ life[i].inits = 1) =>
         privateData[i][1].customFW_private_data = LatestInitState(i)

\* A run on a handle of the second open of an instance was given the state
\* of the second initfunc.
C33_Witness ==
  /\ Dispatched("invoke", "invoke")
  /\ aborted = "none"
  /\ next_state[last.inst] = 3
  /\ life[last.inst] = [inits |-> 1, exits |-> 0, others |-> 1, ordered |-> TRUE]
  /\ last.calls[1].state = 10 * last.inst + 2


\* Open has accepted the handle of instance i: the process runs on.
Accepted(i) == IsOpen(i) /\ aborted = "none"

\* A run on an open handle returned to its caller without a module call:
\* the final branch of the dispatcher (lines 151-152).
FinalBranch ==
  /\ last.op = "invoke"
  /\ aborted = "none"
  /\ last.calls = <<>>

\* C34: on every handle that open has accepted exactly one of invoke and
\* allocate_invoke is present at every later run, so the final branch of the
\* dispatcher is never taken, and the branch a run takes agrees with the
\* ownership mode recorded at open.
C34_BranchAgreesWithMode ==
  /\ \A i \in Instances :
       Accepted(i) => OneOwnershipMode(privateData[i][1].methods)
  /\ ~FinalBranch
  /\ (last.op = "invoke" /\ aborted = "none") =>
       (Dispatched("invoke", "allocate_invoke") <=> allocate_in_invoke)

\* The part of C34 that does not involve the recorded mode.
C34_FinalBranchUnreachable ==
  /\ \A i \in Instances :
       Accepted(i) => OneOwnershipMode(privateData[i][1].methods)
  /\ ~FinalBranch


\* The module's allocate_invoke failed: it returned no buffer and did not
\* write *size.
AllocationFailed ==
  /\ Dispatched("invoke", "allocate_invoke")
  /\ last.io.buf = NULL
  /\ ~last.io.written

\* C35: in module-allocates mode, when allocate_invoke reports failure by
\* returning NULL without setting the size, the run returns NULL to its
\* caller and raises no SizeMismatch from a size the module never wrote.
C35_AllocationFailureReturnsNull ==
  AllocationFailed => (aborted = "none" /\ last.ret = NULL)


\* C36: in the scaler's invoke every sampled input coordinate satisfies
\* ix = x * in_dim1 / ox < in_dim1 and iy = y * in_dim2 / oy < in_dim2 for
\* every x < ox and y < oy, also when the 32-bit products wrap: the assertion
\* inside the loop never fails and no byte outside the input tensor is read.
C36_SamplesInsideInput ==
  scaler.pc = "ran" =>
    /\ scaler.abort # "assert:184"
    /\ \A w \in scaler.writes :
         /\ w.ix >= 0 /\ w.ix < scaler.input_meta.dimension[2]
         /\ w.iy >= 0 /\ w.iy < scaler.input_meta.dimension[3]
         /\ w.src >= 0 /\ w.src < ByteSize(scaler.input_meta)

\* A run on a tensor of WideDim columns took column 0 for the last output
\* column: the product 65536 * 65537 wrapped.
C36_Witness ==
  /\ scaler.pc = "ran"
  /\ scaler.abort = "none"
  /\ scaler.input_meta.dimension = <<1, WideDim, 1, 1>>
  /\ \E w \in scaler.writes : w.x = WideDim - 1 /\ w.ix < w.x


\* C37: an output info that the scaler's setInputDim made from an input info
\* meets what its invoke asserts once the pair is the configured input and
\* output info: dimension[0], dimension[3] and the element type are those of
\* the input, and the loop bounds ox and oy of invoke are dimension[1] and
\* dimension[2] of the output.
C37_NegotiatedShapeFitsInvoke ==
  (ScalerNegotiated /\ scaler.pc \in {"negotiated", "ran"}) =>
    LET in == scaler.input_meta
        out == scaler.output_meta
    IN /\ out.dimension[1] = in.dimension[1]
       /\ out.dimension[4] = in.dimension[4]
       /\ out.type = in.type
       /\ InvokeAsserts(scaler.data, in, out, 1, 2) = "none"
       /\ scaler.pc = "ran" =>
            /\ scaler.abort = "none"
            /\ {w.x : w \in scaler.writes} = 0..(out.dimension[2] - 1)
            /\ {w.y : w \in scaler.writes} = 0..(out.dimension[3] - 1)

\* A run after the negotiation of the target "1X2" on a 2 x 1 input.
C37_Witness ==
  /\ scaler.pc = "ran"
  /\ ScalerNegotiated
  /\ scaler.custom_properties = Str(<<"1", "X", "2">>)
  /\ scaler.input_meta.dimension = <<2, 2, 1, 2>>
  /\ scaler.output_meta.dimension = <<2, 1, 2, 2>>
  /\ {w.y : w \in scaler.writes} = {0, 1}


\* The scaler was given no target: the custom property is absent or empty.
NoTarget == scaler.custom_properties \in {NoString, Str(<<>>)}

\* The target of the scaler is the size of its input.
TargetIsInputSize ==
  /\ scaler.data # <<>>
  /\ scaler.data[1].new_x = scaler.input_meta.dimension[2]
  /\ scaler.data[1].new_y = scaler.input_meta.dimension[3]

\* C38: without a target (custom property absent or empty, new_x = new_y =
\* 0), or with a target that is the size of the input, the scaler's
\* setInputDim returns the input info unchanged, and a run copies the input
\* buffer to the output buffer byte for byte.
C38_IdentityScaling ==
  /\ (NoTarget /\ scaler.data # <<>>) =>
       (scaler.data[1].new_x = 0 /\ scaler.data[1].new_y = 0)
  /\ (/\ ScalerNegotiated
      /\ scaler.pc \in {"negotiated", "ran"}
      /\ NoTarget \/ TargetIsInputSize) =>
       /\ scaler.out_info =
            [num_tensors |-> 1, dimension |-> scaler.input_meta.dimension,
             type |-> scaler.input_meta.type]
       /\ scaler.pc = "ran" =>
            /\ scaler.abort = "none"
            /\ scaler.ret = 0
            /\ {w.off : w \in scaler.writes} =
                 0..(ByteSize(scaler.input_meta) - 1)
            /\ \A w \in scaler.writes : w.src = w.off

=============================================================================
